---- MODULE Spec2Model ----
(***************************************************************************)
(* Animation retargeting and playback of the 3D-anime demo page            *)
(* (src/app/page.tsx): the boneMapping table, retargetAnimation,           *)
(* processExternalAnimations, loadModels, animate and the exposed          *)
(* playDanceAnimation handle, together with the three.js objects they      *)
(* drive (AnimationClip, KeyframeTrack, AnimationMixer, AnimationAction).  *)
(*                                                                         *)
(* Representation.                                                         *)
(*  - A JavaScript string that the code splits on '.' is kept as the       *)
(*    sequence of its dot-free segments: "hips_JNT.position" is            *)
(*    <<"hips_JNT", "position">>, "hips_JNT" is <<"hips_JNT">>.  The       *)
(*    correspondence string <-> non-empty sequence of segments is          *)
(*    one-to-one, so String.prototype.split('.') yields the sequence.      *)
(*  - Objects live in `heap`, a sequence; a reference is an index.         *)
(*    Typed arrays and plain arrays are objects [k, e]; keyframe tracks    *)
(*    are objects [k |-> "track", type, name, times, values] whose         *)
(*    times/values fields are references.                                  *)
(*  - Sample numbers are elements of Float32Array buffers; a conversion    *)
(*    Float32Array -> Array -> Float32Array keeps each element (every      *)
(*    float32 is a double), but allocates a new array object.              *)
(***************************************************************************)
EXTENDS Integers, Sequences, FiniteSets, TLC

\* ------------------------------------------------------------------ bounds
\* Largest number of tracks of a source clip handed to retargetAnimation.
MaxTracks == 2

\* ------------------------------------------------------- boneMapping table
\* page.tsx:43-109, the key/value pairs in source order.
boneMappingPairs ==
  <<
    <<"hips_JNT", "J_Bip_C_Hips">>,
    <<"spine_JNT", "J_Bip_C_Spine">>,
    <<"spine1_JNT", "J_Bip_C_Chest">>,
    <<"spine2_JNT", "J_Bip_C_UpperChest">>,
    <<"neck_JNT", "J_Bip_C_Neck">>,
    <<"head_JNT", "J_Bip_C_Head">>,
    <<"l_shoulder_JNT", "J_Bip_L_Shoulder">>,
    <<"l_arm_JNT", "J_Bip_L_UpperArm">>,
    <<"l_forearm_JNT", "J_Bip_L_LowerArm">>,
    <<"l_hand_JNT", "J_Bip_L_Hand">>,
    <<"r_shoulder_JNT", "J_Bip_R_Shoulder">>,
    <<"r_arm_JNT", "J_Bip_R_UpperArm">>,
    <<"r_forearm_JNT", "J_Bip_R_LowerArm">>,
    <<"r_hand_JNT", "J_Bip_R_Hand">>,
    <<"l_upleg_JNT", "J_Bip_L_UpperLeg">>,
    <<"l_leg_JNT", "J_Bip_L_LowerLeg">>,
    <<"l_foot_JNT", "J_Bip_L_Foot">>,
    <<"l_toebase_JNT", "J_Bip_L_ToeBase">>,
    <<"r_upleg_JNT", "J_Bip_R_UpperLeg">>,
    <<"r_leg_JNT", "J_Bip_R_LowerLeg">>,
    <<"r_foot_JNT", "J_Bip_R_Foot">>,
    <<"r_toebase_JNT", "J_Bip_R_ToeBase">>,
    <<"l_handThumb1_JNT", "J_Bip_L_Thumb1">>,
    <<"l_handThumb2_JNT", "J_Bip_L_Thumb2">>,
    <<"l_handThumb3_JNT", "J_Bip_L_Thumb3">>,
    <<"l_handIndex1_JNT", "J_Bip_L_Index1">>,
    <<"l_handIndex2_JNT", "J_Bip_L_Index2">>,
    <<"l_handIndex3_JNT", "J_Bip_L_Index3">>,
    <<"l_handMiddle1_JNT", "J_Bip_L_Middle1">>,
    <<"l_handMiddle2_JNT", "J_Bip_L_Middle2">>,
    <<"l_handMiddle3_JNT", "J_Bip_L_Middle3">>,
    <<"l_handRing1_JNT", "J_Bip_L_Ring1">>,
    <<"l_handRing2_JNT", "J_Bip_L_Ring2">>,
    <<"l_handRing3_JNT", "J_Bip_L_Ring3">>,
    <<"l_handPinky1_JNT", "J_Bip_L_Little1">>,
    <<"l_handPinky2_JNT", "J_Bip_L_Little2">>,
    <<"l_handPinky3_JNT", "J_Bip_L_Little3">>,
    <<"r_handThumb1_JNT", "J_Bip_R_Thumb1">>,
    <<"r_handThumb2_JNT", "J_Bip_R_Thumb2">>,
    <<"r_handThumb3_JNT", "J_Bip_R_Thumb3">>,
    <<"r_handIndex1_JNT", "J_Bip_R_Index1">>,
    <<"r_handIndex2_JNT", "J_Bip_R_Index2">>,
    <<"r_handIndex3_JNT", "J_Bip_R_Index3">>,
    <<"r_handMiddle1_JNT", "J_Bip_R_Middle1">>,
    <<"r_handMiddle2_JNT", "J_Bip_R_Middle2">>,
    <<"r_handMiddle3_JNT", "J_Bip_R_Middle3">>,
    <<"r_handRing1_JNT", "J_Bip_R_Ring1">>,
    <<"r_handRing2_JNT", "J_Bip_R_Ring2">>,
    <<"r_handRing3_JNT", "J_Bip_R_Ring3">>,
    <<"r_handPinky1_JNT", "J_Bip_R_Little1">>,
    <<"r_handPinky2_JNT", "J_Bip_R_Little2">>,
    <<"r_handPinky3_JNT", "J_Bip_R_Little3">>
  >>

boneMappingKeys == { boneMappingPairs[i][1] : i \in 1..Len(boneMappingPairs) }

\* The own properties of the object literal: the value written last for a key.
boneMapping ==
  [ k \in boneMappingKeys |->
      LET i == CHOOSE i \in 1..Len(boneMappingPairs) :
                 /\ boneMappingPairs[i][1] = k
                 /\ \A j \in (i+1)..Len(boneMappingPairs) : boneMappingPairs[j][1] # k
      IN boneMappingPairs[i][2] ]

\* Object.prototype, which the object literal inherits from: the property
\* names a lookup with [] also finds, each with the text String(value) gives.
ObjectPrototypePairs ==
  << << "constructor", "function Object() { [native code] }" >>,
     << "toString", "function toString() { [native code] }" >>,
     << "toLocaleString", "function toLocaleString() { [native code] }" >>,
     << "valueOf", "function valueOf() { [native code] }" >>,
     << "hasOwnProperty", "function hasOwnProperty() { [native code] }" >>,
     << "isPrototypeOf", "function isPrototypeOf() { [native code] }" >>,
     << "propertyIsEnumerable", "function propertyIsEnumerable() { [native code] }" >>,
     << "__proto__", "[object Object]" >> >>

ObjectPrototype ==
  [ k \in { ObjectPrototypePairs[i][1] : i \in 1..Len(ObjectPrototypePairs) } |->
      LET i == CHOOSE i \in 1..Len(ObjectPrototypePairs) : ObjectPrototypePairs[i][1] = k
      IN ObjectPrototypePairs[i][2] ]

\* ------------------------------------------------------ JavaScript values
Undefined == [tag |-> "undefined", s |-> "undefined"]
Str(s) == [tag |-> "string", s |-> s]
Obj(s) == [tag |-> "object", s |-> s]

\* JSToBoolean: what `if (v)` tests.
JSToBoolean(v) == v.tag = "object" \/ (v.tag = "string" /\ v.s # "")

\* JSToString: what `${v}` interpolates.
JSToString(v) == v.s

\* boneMapping[boneName]: own property, else inherited property, else undefined.
boneMappingGet(boneName) ==
  IF boneName \in DOMAIN boneMapping THEN Str(boneMapping[boneName])
  ELSE IF boneName \in DOMAIN ObjectPrototype THEN Obj(ObjectPrototype[boneName])
  ELSE Undefined

\* const [boneName, property] = track.name.split('.')
splitBoneName(name) == name[1]
splitProperty(name) == IF Len(name) >= 2 THEN Str(name[2]) ELSE Undefined

\* Mutant: the track keeps the joint name of the motion skeleton.
newTrackNameUnmapped(boneName, property) == << boneName, JSToString(property) >>

\* `${boneMapping[boneName]}.${property}`, as its sequence of segments.
newTrackName(boneName, property) ==
  << JSToString(boneMappingGet(boneName)), JSToString(property) >>

\* ------------------------------------------------------------------- heap
\* The null reference.
Null == 0

NewRef(h) == Len(h) + 1

\* three.js AnimationUtils.convertArray(array, type): the array itself when it
\* already has the wanted constructor, else a new array of that type.
convertArray(h, ref, type) ==
  IF h[ref].k = type
    THEN [heap |-> h, ref |-> ref]
    ELSE [heap |-> Append(h, [k |-> type, e |-> h[ref].e]), ref |-> NewRef(h)]

\* TypedArray.prototype.slice(): a new array of the same type.
arraySlice(h, ref) ==
  [heap |-> Append(h, [k |-> h[ref].k, e |-> h[ref].e]), ref |-> NewRef(h)]

\* new KeyframeTrack(name, times, values) of the given track type: both buffers
\* go through convertArray(..., Float32Array).
newKeyframeTrack(h, type, name, times, values) ==
  LET t == convertArray(h, times, "Float32Array")
      v == convertArray(t.heap, values, "Float32Array")
  IN [heap |-> Append(v.heap, [k |-> "track", type |-> type, name |-> name,
                               times |-> t.ref, values |-> v.ref]),
      ref |-> NewRef(v.heap)]

\* KeyframeTrack.toJSON(track): name, type and plain-array copies of the buffers.
KeyframeTrack_toJSON(h, tref) ==
  LET t == convertArray(h, h[tref].times, "Array")
      v == convertArray(t.heap, h[tref].values, "Array")
  IN [heap |-> v.heap,
      json |-> [name |-> h[tref].name, type |-> h[tref].type,
                times |-> t.ref, values |-> v.ref]]

\* AnimationClip.toJSON(clip)
RECURSIVE tracksToJSON(_, _, _)
tracksToJSON(h, trefs, acc) ==
  IF trefs = << >> THEN [heap |-> h, tracks |-> acc]
  ELSE LET r == KeyframeTrack_toJSON(h, Head(trefs))
       IN tracksToJSON(r.heap, Tail(trefs), Append(acc, r.json))

AnimationClip_toJSON(h, clip) ==
  LET r == tracksToJSON(h, h[clip].tracks, << >>)
  IN [heap |-> r.heap,
      json |-> [name |-> h[clip].name, duration |-> h[clip].duration,
                tracks |-> r.tracks]]

\* AnimationClip.parse(json): a track of the recorded type per JSON track.
RECURSIVE parseTracks(_, _, _)
parseTracks(h, jsons, acc) ==
  IF jsons = << >> THEN [heap |-> h, tracks |-> acc]
  ELSE LET j == Head(jsons)
           r == newKeyframeTrack(h, j.type, j.name, j.times, j.values)
       IN parseTracks(r.heap, Tail(jsons), Append(acc, r.ref))

\* new AnimationClip(name, duration, tracks)
newAnimationClip(h, name, duration, tracks) ==
  [heap |-> Append(h, [k |-> "clip", name |-> name, duration |-> duration,
                       tracks |-> tracks]),
   ref |-> NewRef(h)]

AnimationClip_parse(h, json) ==
  LET r == parseTracks(h, json.tracks, << >>)
  IN newAnimationClip(r.heap, json.name, json.duration, r.tracks)

\* Mutant: the tracks of the source clip are used directly, without the copy.
cloneClipMissing(h, clip) == [heap |-> h, ref |-> clip]

\* const newClip = THREE.AnimationClip.parse(THREE.AnimationClip.toJSON(clip))
cloneClip(h, clip) ==
  LET j == AnimationClip_toJSON(h, clip)
  IN AnimationClip_parse(j.heap, j.json)

\* The body of newClip.tracks.forEach(track => ...) for one track.
retargetTrack(h, tref, newTracks) ==
  LET name     == h[tref].name
      boneName == splitBoneName(name)
      property == splitProperty(name)
  IN IF JSToBoolean(boneMappingGet(boneName))
       THEN LET s == arraySlice(h, h[tref].values)
                t == newKeyframeTrack(s.heap, "", newTrackName(boneName, property),
                                      h[tref].times, s.ref)
            IN [heap |-> t.heap, newTracks |-> Append(newTracks, t.ref)]
       ELSE [heap |-> h, newTracks |-> newTracks]

RECURSIVE retargetTracks(_, _, _)
retargetTracks(h, trefs, newTracks) ==
  IF trefs = << >> THEN [heap |-> h, newTracks |-> newTracks]
  ELSE LET r == retargetTrack(h, Head(trefs), newTracks)
       IN retargetTracks(r.heap, Tail(trefs), r.newTracks)

\* return new THREE.AnimationClip(clip.name, clip.duration, newTracks), where
\* r are the heap and the newTracks the forEach leaves.
returnClip(r, name, duration) == newAnimationClip(r.heap, name, duration, r.newTracks)

\* The forEach over the tracks of newClip, the copy of the source clip.
retargetCopy(newClip, name, duration) ==
  returnClip(retargetTracks(newClip.heap, newClip.heap[newClip.ref].tracks, << >>),
             name, duration)

\* retargetAnimation(clip): the heap after the call and the reference of the
\* clip it returns.
retargetAnimation(h, clip) ==
  retargetCopy(cloneClip(h, clip), h[clip].name, h[clip].duration)

\* ---------------------------------------------- three.js playback objects
\* Time is counted in ticks of a quarter of a time unit, so that the fade of
\* 0.5 time units the page asks for lasts FadeTicks ticks.
FadeTicks == 2

\* Weights are kept as multiples of 1/FadeTicks: FullWeight stands for 1.
FullWeight == FadeTicks

\* PropertyBinding.parseTrackName rejects a node name holding one of the
\* reserved characters [ ] . : / ; of the names retargetAnimation can build,
\* those are the string forms of the Object.prototype members.
trackNameParsable(name) ==
  name[1] \notin { ObjectPrototype[k] : k \in DOMAIN ObjectPrototype }

\* mixer.clipAction(clip) binds every track of the clip and throws on a track
\* name it cannot parse.
clipActionThrows(h, clip) ==
  \E i \in 1..Len(h[clip].tracks) : ~ trackNameParsable(h[h[clip].tracks[i]].name)

NoFade == << >>

\* The AnimationAction that mixer.clipAction(clip) creates.
newAnimationAction(clip) ==
  [ clip |-> clip, enabled |-> TRUE, paused |-> FALSE, time |-> 0,
    loopCount |-> -1, loop |-> "LoopRepeat", repetitions |-> "Infinity",
    fade |-> NoFade, effectiveWeight |-> FullWeight, active |-> FALSE ]

\* action.stopFading(): gives back the weight interpolant.
stopFading(a) == [a EXCEPT !.fade = NoFade]

\* reset() that leaves the local time where it was.
resetKeepsTime(a) ==
  stopFading([a EXCEPT !.paused = FALSE, !.enabled = TRUE, !.loopCount = -1])

\* action.reset()
reset(a) ==
  stopFading([a EXCEPT !.paused = FALSE, !.enabled = TRUE, !.time = 0,
                       !.loopCount = -1])

\* action.play(): mixer._activateAction(this)
play(a) == [a EXCEPT !.active = TRUE]

\* stop() that leaves the action among the mixer's active actions.
stopKeepsActive(a) == reset(a)

\* action.stop(): mixer._deactivateAction(this), then reset()
stop(a) == reset([a EXCEPT !.active = FALSE])

\* action._scheduleFading(duration, weightNow, weightThen) at mixer time `now`
scheduleFading(a, now, duration, weightNow, weightThen) ==
  [a EXCEPT !.fade = [t0 |-> now, v0 |-> weightNow,
                      t1 |-> now + duration, v1 |-> weightThen]]

fadeIn(a, now, duration) == scheduleFading(a, now, duration, 0, FullWeight)
fadeOut(a, now, duration) == scheduleFading(a, now, duration, FullWeight, 0)

\* action.setLoop(mode, repetitions)
setLoop(a, mode, repetitions) == [a EXCEPT !.loop = mode, !.repetitions = repetitions]

\* action.isRunning(); timeScale is 1 and no start time is ever scheduled.
isRunning(a) == a.enabled /\ ~ a.paused /\ a.active

\* The weight interpolant at mixer time t: linear between its two samples and
\* constant outside them.
fadeValue(f, t) ==
  IF t <= f.t0 THEN f.v0
  ELSE IF t >= f.t1 THEN f.v1
  ELSE f.v0 + ((f.v1 - f.v0) * (t - f.t0)) \div (f.t1 - f.t0)

\* action._updateWeight(time)
updateWeight(a, t) ==
  IF ~ a.enabled THEN [a EXCEPT !.effectiveWeight = 0]
  ELSE IF a.fade = NoFade THEN [a EXCEPT !.effectiveWeight = FullWeight]
  ELSE LET v == fadeValue(a.fade, t)
       IN IF t > a.fade.t1
            THEN [a EXCEPT !.effectiveWeight = v, !.fade = NoFade,
                           !.enabled = (v # 0)]
            ELSE [a EXCEPT !.effectiveWeight = v]

\* action._updateTime(deltaTime) for LoopRepeat with infinitely many
\* repetitions and deltaTime > 0: the local time wraps at the clip's duration.
updateTime(a, delta, duration) ==
  LET t  == a.time + delta
      lc == IF a.loopCount = -1 THEN 0 ELSE a.loopCount
  IN IF t >= duration
       THEN [a EXCEPT !.time = t % duration, !.loopCount = lc + (t \div duration)]
       ELSE [a EXCEPT !.time = t, !.loopCount = lc]

\* action._update(time, deltaTime, ...), called for the active actions only
updateAction(a, t, delta, duration) ==
  IF ~ a.active THEN a
  ELSE IF ~ a.enabled THEN updateWeight(a, t)
  ELSE updateWeight(updateTime(a, delta, duration), t)

\* ------------------------------------------------------------- variables
VARIABLES
  heap,      \* the object store: typed arrays, plain arrays, tracks, clips
  \* retargetAnimation called on its own
  rtIn,      \* the argument, a reference to the source clip
  rtOut,     \* the reference returned, Null before the call
  rtHeap0,   \* the object store as it was when the call was made
  rtPc,      \* "ready" before the call, "returned" after it
  \* the page
  variant,             \* "plain": playDanceAnimation starts the music itself
                       \* (page.tsx:382-389); "video": those lines are commented
                       \* out (page.tsx:989-996)
  isComponentMounted,  \* isComponentMounted.current
  sceneRef,            \* sceneRef.current: Null, or the number of the scene
  modelScene,          \* the scene the character model was added to, or Null
  rafPending,          \* a requestAnimationFrame(animate) callback is scheduled
  isLoading,           \* the module-level flag
  loadPc,              \* where the loadModels call in flight is suspended:
                       \* "none", "character" (first await), "dance" (second)
  modelRef,            \* modelRef.current is set
  mixerRef,            \* mixerRef.current is set
  mixerTime,           \* mixer.time, in ticks
  actions,             \* the AnimationAction objects of the mixer, by reference
  actionsRef,          \* actionsRef.current: registered name -> action reference
  currentActionRef,    \* currentActionRef.current: an action reference or Null
  danceAnimationsRef,  \* danceAnimationsRef.current: references of the clips
  audioRef,            \* the page's audio element (the scene's in the plain
                       \* variant, Home's in the video variant): "null", or
                       \* its play state
  isModelLoaded,       \* Home's state: the dance button is enabled
  errorMessage,        \* Home's state: the text of the error banner, "" if none
  isFirstLoad,         \* Home's isFirstLoad.current
  timers,              \* the 50 ms timers set by clicks and not yet expired
  \* what the last operations were (observation only)
  lastOp,              \* the last operation on the scene other than a frame:
                       \* [op, index]
  prevOp,              \* the one before it
  framesBetween,       \* the mixer advanced between prevOp and lastOp
  framesSince,         \* the mixer advanced since lastOp
  outcome,             \* of the last playDanceAnimation: "started", "warned";
                       \* "threw" when the call was made on a null handle
  calls,               \* the methods it called on actions: << <<action, method>> ... >>
  preTime,             \* local time, before the call, of the action it resolved
  pendingFetches,      \* loader.loadAsync promises issued and not yet settled
  onModelLoadedCalls   \* the calls of props.onModelLoaded made so far, in order

rtVars == << rtIn, rtOut, rtHeap0, rtPc >>
pageVars == << variant, isComponentMounted, sceneRef, modelScene, rafPending,
               isLoading, loadPc, modelRef, mixerRef, mixerTime, actions,
               actionsRef, currentActionRef, danceAnimationsRef, audioRef,
               isModelLoaded, errorMessage, isFirstLoad >>
obsVars == << lastOp, prevOp, framesBetween, framesSince, outcome, calls, preTime,
              pendingFetches, onModelLoadedCalls >>
uiVars == << timers >>
vars == << heap, rtVars, pageVars, uiVars, obsVars >>

NoOp == [op |-> "none", index |-> -1]
Op(name, index) == [op |-> name, index |-> index]
\* A fetch that failed, with what it rejected with.
OpFailed(name, failure) == [op |-> name, index |-> -1, failure |-> failure]

\* ------------------------------------------- source clips (motion file)
\* Joint names a motion file can carry: two mapped joints, a joint only the
\* motion skeleton has, the empty name and names Object.prototype defines.
JointNames == { "hips_JNT", "spine_JNT", "tail_JNT", "", "constructor", "__proto__" }

PropertyNames == { "position", "quaternion" }

\* Track identifiers: "<joint>.<property>", and identifiers that do not split
\* into exactly two parts.
WellFormedNames == { << j, p >> : j \in JointNames, p \in PropertyNames }
MalformedNames == { << "hips_JNT" >>, << "hips_JNT", "position", "x" >> }
TrackNames == WellFormedNames \cup MalformedNames

\* Keyframes: one key or two keys, 3 components per key for a vector track and
\* 4 for a quaternion track.
SampleChoices == { "one", "two" }
sampleTimes(choice) == IF choice = "one" THEN << 0 >> ELSE << 0, 1 >>
sampleValues(type, choice) ==
  IF type = "quaternion"
    THEN IF choice = "one" THEN << 0, 0, 0, 1 >> ELSE << 0, 0, 0, 1, 0, 1, 0, 0 >>
    ELSE IF choice = "one" THEN << 1, 2, 3 >> ELSE << 1, 2, 3, 4, 5, 6 >>

\* The track type GLTFLoader gives a channel: quaternion for rotations,
\* vector otherwise.
trackTypeOf(name) ==
  IF Len(name) >= 2 /\ name[2] = "quaternion" THEN "quaternion" ELSE "vector"

TrackKinds == { [name |-> n, choice |-> c] : n \in TrackNames, c \in SampleChoices }

ClipNames == { "dance", "" }
ClipDurations == { 1, 2 }

RECURSIVE SeqsUpTo(_, _)
SeqsUpTo(S, n) ==
  IF n = 0 THEN { << >> }
  ELSE LET shorter == SeqsUpTo(S, n - 1)
       IN shorter \cup { Append(s, x) : s \in { t \in shorter : Len(t) = n - 1 }, x \in S }

\* The heap holding the tracks of a freshly loaded clip: per track its times
\* buffer, its values buffer and the track object, in that order.
RECURSIVE loadTracks(_, _, _)
loadTracks(h, kinds, acc) ==
  IF kinds = << >> THEN [heap |-> h, tracks |-> acc]
  ELSE LET kd == Head(kinds)
           ty == trackTypeOf(kd.name)
           h1 == Append(h, [k |-> "Float32Array", e |-> sampleTimes(kd.choice)])
           h2 == Append(h1, [k |-> "Float32Array", e |-> sampleValues(ty, kd.choice)])
           r  == newKeyframeTrack(h2, ty, kd.name, Len(h1), Len(h2))
       IN loadTracks(r.heap, Tail(kinds), Append(acc, r.ref))

loadClip(h, name, duration, kinds) ==
  LET r == loadTracks(h, kinds, << >>)
  IN newAnimationClip(r.heap, name, duration, r.tracks)


\* ------------------------------------------------ the page: bounds, inputs
\* Largest number of animation clips in the motion file.
MaxClips == 2
\* Largest number of animation clips built into the character file.
MaxCharacterClips == 1
\* The mixer is advanced up to this time, in ticks.
MaxTime == 3

\* Indices callers pass to playDanceAnimation: those of the clips a motion file
\* can hold, and one beyond them.
PlayIndices == 0..MaxClips
\* Time steps of one frame, in ticks.
Deltas == { 1, 2 }

\* Duration, in ticks, of the clips of the two files.
LoadedClipDuration == 3
MaxTimers == 1

\* Clips a motion file can hold: a clip with a mapped and an unmapped joint,
\* and a clip animating a node named "constructor".
MotionClipKinds ==
  { << [name |-> << "hips_JNT", "position" >>, choice |-> "two"],
       [name |-> << "tail_JNT", "quaternion" >>, choice |-> "one"] >>,
    << [name |-> << "constructor", "position" >>, choice |-> "one"] >> }

\* A clip built into the character file: it animates the character's own bones.
CharacterClipKind ==
  << [name |-> << "J_Bip_C_Hips", "quaternion" >>, choice |-> "one"] >>

\* What a failed fetch rejects with: an Error with a message, or something
\* that is no Error.
LoadFailures ==
  { [isError |-> TRUE, message |-> "fetch for \"/3d/motion.glb\" responded with 404: Not Found"],
    [isError |-> TRUE, message |-> "Unexpected token"],
    [isError |-> TRUE, message |-> ""],
    [isError |-> FALSE, message |-> ""] }

UnknownErrorText == "Unknown error occurred"
FileNotFoundText == "Model files not found. Please place GLB files in '/public/3d/'."

\* error.includes("Not Found")
includesNotFound(message) ==
  message = "fetch for \"/3d/motion.glb\" responded with 404: Not Found"

\* Names under which actions are registered: `dance_${index}`, `original_${index}`.
animationNameOriginal(index) == << "original", index >>
animationName(index) == << "dance", index >>
originalName(index) == << "original", index >>
ActionNames ==
  { animationName(i) : i \in 0..(MaxClips - 1) } \cup
  { originalName(i) : i \in 0..(MaxCharacterClips - 1) }

\* actionsRef.current[name] is an action.
registered(reg, name) == name \in DOMAIN reg /\ reg[name] # Null

\* The files' clips, loaded into the heap one after the other.
RECURSIVE loadClips(_, _, _)
loadClips(h, kindsSeq, acc) ==
  IF kindsSeq = << >> THEN [heap |-> h, clips |-> acc]
  ELSE LET r == loadClip(h, "dance", LoadedClipDuration, Head(kindsSeq))
       IN loadClips(r.heap, Tail(kindsSeq), Append(acc, r.ref))

\* The page as constructed, before the scene-initialisation effect has run.
PageInit ==
  /\ variant \in { "plain", "video" }
  /\ isComponentMounted = FALSE
  /\ sceneRef = Null
  /\ modelScene = Null
  /\ rafPending = FALSE
  /\ isLoading = FALSE
  /\ loadPc = "none"
  /\ modelRef = FALSE
  /\ mixerRef = FALSE
  /\ mixerTime = 0
  /\ actions = << >>
  /\ actionsRef = [n \in ActionNames |-> Null]
  /\ currentActionRef = Null
  /\ danceAnimationsRef = << >>
  /\ audioRef = "null"
  /\ isModelLoaded = FALSE
  /\ errorMessage = ""
  /\ isFirstLoad = TRUE
  /\ timers = 0
  /\ lastOp = NoOp
  /\ prevOp = NoOp
  /\ framesBetween = FALSE
  /\ framesSince = FALSE
  /\ outcome = "none"
  /\ calls = << >>
  /\ preTime = -1
  /\ pendingFetches = 0
  /\ onModelLoadedCalls = << >>

\* ------------------------------------------------------- Home (UI shell)
\* handleModelLoad(loaded, error) as the scene calls it: the callback is the one
\* of Home's first render, in which isModelLoaded is false, so the early return
\* for an already loaded model is never taken.  `error` is "" when absent.
\* Once the page is unmounted React ignores the state setters.
handleModelLoad(loaded, hasError, error) ==
  /\ isFirstLoad' = FALSE
  /\ IF ~ isComponentMounted
       THEN UNCHANGED << isModelLoaded, errorMessage >>
       ELSE IF hasError /\ error # ""
         THEN /\ errorMessage' = IF includesNotFound(error) THEN FileNotFoundText ELSE error
              /\ UNCHANGED isModelLoaded
         ELSE /\ isModelLoaded' = loaded
              /\ errorMessage' = ""

\* props.onModelLoaded(loaded, error) (page.tsx:218, 222); the prop is Home's
\* handleModelLoad (page.tsx:596).
\* The callback followed by a second call, as if the catch of loadModels ran
\* after the callback had been made.
onModelLoadedThenCatch(loaded, hasError, error) ==
  /\ handleModelLoad(loaded, hasError, error)
  /\ onModelLoadedCalls' =
       Append(Append(onModelLoadedCalls,
                     [loaded |-> loaded, hasError |-> hasError, error |-> error]),
              [loaded |-> FALSE, hasError |-> TRUE, error |-> UnknownErrorText])

onModelLoaded(loaded, hasError, error) ==
  /\ handleModelLoad(loaded, hasError, error)
  /\ onModelLoadedCalls' =
       Append(onModelLoadedCalls,
              [loaded |-> loaded, hasError |-> hasError, error |-> error])

\* --------------------------------------------------------- observation
Observe(op) ==
  /\ prevOp' = lastOp
  /\ lastOp' = op
  /\ framesBetween' = framesSince
  /\ framesSince' = FALSE

\* ------------------------------------------------------------ ThreeScene
\* The scene-initialisation effect (page.tsx:253-325): a new scene, then
\* loadModels() up to its first await, then animate().
startLoadModelsUnguarded ==
  /\ isLoading' = TRUE
  /\ loadPc' = "character"
  /\ pendingFetches' = pendingFetches + 1

startLoadModels ==
  IF isLoading
    THEN UNCHANGED << isLoading, loadPc, pendingFetches >>
    ELSE /\ isLoading' = TRUE
         /\ loadPc' = "character"
         /\ pendingFetches' = pendingFetches + 1

Mount ==
  /\ ~ isComponentMounted
  /\ lastOp = NoOp
  /\ isComponentMounted' = TRUE
  /\ sceneRef' = sceneRef + 1
  /\ startLoadModels
  /\ rafPending' = TRUE
  /\ Observe(Op("mount", -1))
  /\ UNCHANGED << heap, rtVars, uiVars, variant, modelScene, modelRef, mixerRef, mixerTime,
                  actions, actionsRef, currentActionRef, danceAnimationsRef,
                  audioRef, isModelLoaded, errorMessage, isFirstLoad,
                  outcome, calls, preTime, onModelLoadedCalls >>

\* React strict mode (next.config.js: reactStrictMode) runs the effect's
\* cleanup and the effect again right after the first run, with the refs kept:
\* the cleanup (page.tsx:327-367) cancels the frame callback and stops the
\* mixer's actions, and the second run builds a new scene, calls loadModels()
\* and animate().  No mixer and no audio element exist yet at that point.
StrictModeRemount ==
  /\ isComponentMounted
  /\ lastOp = Op("mount", -1)
  /\ loadPc = "character"
  /\ ~ framesSince
  /\ sceneRef' = sceneRef + 1
  /\ startLoadModels
  /\ rafPending' = TRUE
  /\ Observe(Op("remount", -1))
  /\ UNCHANGED << heap, rtVars, uiVars, variant, isComponentMounted, modelScene, modelRef,
                  mixerRef, mixerTime, actions, actionsRef, currentActionRef,
                  danceAnimationsRef, audioRef, isModelLoaded, errorMessage,
                  isFirstLoad, outcome, calls, preTime, onModelLoadedCalls >>

\* ----------------------------------------- retargetAnimation, called once
RetargetInit ==
  \E name \in ClipNames, duration \in ClipDurations,
     kinds \in SeqsUpTo(TrackKinds, MaxTracks) :
    \E l \in { loadClip(<< >>, name, duration, kinds) } :
       /\ heap = l.heap
       /\ rtIn = l.ref
       /\ rtOut = Null
       /\ rtHeap0 = l.heap
       /\ rtPc = "ready"
       /\ variant = "plain"
       /\ PageInit

RetargetCall ==
  /\ rtPc = "ready"
  /\ \E r \in { retargetAnimation(heap, rtIn) } :
       /\ heap' = r.heap
       /\ rtOut' = r.ref
  /\ rtHeap0' = heap
  /\ rtPc' = "returned"
  /\ UNCHANGED << rtIn, pageVars, uiVars, obsVars >>

RetargetNext == RetargetCall

SpecRetarget == RetargetInit /\ [][RetargetNext]_vars

\* characterGltf.animations.forEach(...) (page.tsx:201-206): one action per
\* built-in clip, registered as original_<index>.
RECURSIVE registerOriginals(_, _, _, _)
registerOriginals(acts, reg, clips, index) ==
  IF index > Len(clips) THEN [actions |-> acts, actionsRef |-> reg]
  ELSE registerOriginals(Append(acts, newAnimationAction(clips[index])),
                         [reg EXCEPT ![originalName(index - 1)] = Len(acts) + 1],
                         clips, index + 1)

\* The first await of loadModels resolves (page.tsx:185-209): the model is
\* added to the scene, the mixer is created, the built-in clips get actions and
\* the fetch of the motion file starts.
\* The scene the load was started for: the one of the first initialisation.
sceneAtLoadCall == IF sceneRef = Null THEN Null ELSE 1

\* sceneRef.current.add(modelRef.current): the ref is read when the fetch has
\* resolved, so the model goes to the scene that is current then.
sceneOfModel == sceneRef

CharacterLoaded ==
  /\ loadPc = "character"
  /\ \E n \in 0..MaxCharacterClips :
       \E l \in { loadClips(heap, [i \in 1..n |-> CharacterClipKind], << >>) } :
         \E r \in { registerOriginals(<< >>, actionsRef, l.clips, 1) } :
           /\ heap' = l.heap
           /\ actions' = r.actions
           /\ actionsRef' = r.actionsRef
  /\ modelRef' = TRUE
  /\ modelScene' = sceneOfModel
  /\ mixerRef' = TRUE
  /\ mixerTime' = 0
  /\ loadPc' = "dance"
  /\ pendingFetches' = (pendingFetches - 1) + 1
  /\ Observe(Op("characterLoaded", -1))
  /\ UNCHANGED << rtVars, uiVars, variant, isComponentMounted, sceneRef, rafPending, isLoading,
                  currentActionRef, danceAnimationsRef, audioRef, isModelLoaded,
                  errorMessage, isFirstLoad, outcome, calls, preTime,
                  onModelLoadedCalls >>

\* A fetch rejects (page.tsx:219-225): onModelLoaded(false, message), and the
\* finally block clears the flag.
loadFailedUnknown(failure) ==
  /\ onModelLoaded(FALSE, TRUE, UnknownErrorText)
  /\ isLoading' = FALSE
  /\ loadPc' = "none"
  /\ pendingFetches' = pendingFetches - 1

\* The catch of loadModels calling loadModels again.
loadFailedRetries(failure) ==
  /\ onModelLoaded(FALSE, TRUE,
                   IF failure.isError THEN failure.message ELSE UnknownErrorText)
  /\ isLoading' = TRUE
  /\ loadPc' = "character"
  /\ pendingFetches' = pendingFetches

loadFailed(failure) ==
  /\ onModelLoaded(FALSE, TRUE,
                   IF failure.isError THEN failure.message ELSE UnknownErrorText)
  /\ isLoading' = FALSE
  /\ loadPc' = "none"
  /\ pendingFetches' = pendingFetches - 1

CharacterFailed ==
  /\ loadPc = "character"
  /\ \E failure \in LoadFailures :
       /\ loadFailed(failure)
       /\ Observe(OpFailed("characterFailed", failure))
  /\ UNCHANGED << heap, rtVars, uiVars, variant, isComponentMounted, sceneRef, modelScene,
                  rafPending, modelRef, mixerRef, mixerTime, actions, actionsRef,
                  currentActionRef, danceAnimationsRef, audioRef,
                  outcome, calls, preTime >>

\* danceAnimationsRef.current.forEach((clip, index) => ...) inside the try of
\* processExternalAnimations (page.tsx:165-173): a throw of clipAction leaves
\* the loop and is caught.
RECURSIVE processClips(_, _, _, _, _)

\* The action bound to the clip as loaded instead of the retargeted one.
registerDanceUnretargeted(r, acts, reg, clips, index) ==
  processClips(r.heap, Append(acts, newAnimationAction(clips[index])),
               [reg EXCEPT ![animationName(index - 1)] = Len(acts) + 1],
               clips, index + 1)

\* const action = mixerRef.current!.clipAction(retargetedClip);
\* actionsRef.current[`dance_${index}`] = action; r is what retargetAnimation
\* returned for the clip at `index`.
registerDance(r, acts, reg, clips, index) ==
  IF clipActionThrows(r.heap, r.ref)
    THEN [heap |-> r.heap, actions |-> acts, actionsRef |-> reg]
    ELSE processClips(r.heap, Append(acts, newAnimationAction(r.ref)),
                      [reg EXCEPT ![animationName(index - 1)] = Len(acts) + 1],
                      clips, index + 1)

processClips(h, acts, reg, clips, index) ==
  IF index > Len(clips) THEN [heap |-> h, actions |-> acts, actionsRef |-> reg]
  ELSE registerDance(retargetAnimation(h, clips[index]), acts, reg, clips, index)

\* processExternalAnimations() (page.tsx:159-174)
processExternalAnimations(h, acts, reg, clips) ==
  IF Len(clips) = 0 \/ ~ modelRef \/ ~ mixerRef
    THEN [heap |-> h, actions |-> acts, actionsRef |-> reg]
    ELSE processClips(h, acts, reg, clips, 1)

\* The second await of loadModels resolves (page.tsx:209-218, 223-225).
DanceLoaded ==
  /\ loadPc = "dance"
  /\ \E kindsSeq \in SeqsUpTo(MotionClipKinds, MaxClips) :
       \E l \in { loadClips(heap, kindsSeq, << >>) } :
         \E p \in { IF Len(l.clips) > 0
                      THEN processExternalAnimations(l.heap, actions, actionsRef, l.clips)
                      ELSE [heap |-> l.heap, actions |-> actions,
                            actionsRef |-> actionsRef] } :
           /\ danceAnimationsRef' = l.clips
           /\ heap' = p.heap
           /\ actions' = p.actions
           /\ actionsRef' = p.actionsRef
  /\ onModelLoaded(TRUE, FALSE, "")
  /\ isLoading' = FALSE
  /\ loadPc' = "none"
  /\ pendingFetches' = pendingFetches - 1
  /\ Observe(Op("danceLoaded", -1))
  /\ UNCHANGED << rtVars, uiVars, variant, isComponentMounted, sceneRef, modelScene, rafPending,
                  modelRef, mixerRef, mixerTime, currentActionRef, audioRef,
                  outcome, calls, preTime >>

DanceFailed ==
  /\ loadPc = "dance"
  /\ \E failure \in LoadFailures :
       /\ loadFailed(failure)
       /\ Observe(OpFailed("danceFailed", failure))
  /\ UNCHANGED << heap, rtVars, uiVars, variant, isComponentMounted, sceneRef, modelScene,
                  rafPending, modelRef, mixerRef, mixerTime, actions, actionsRef,
                  currentActionRef, danceAnimationsRef, audioRef,
                  outcome, calls, preTime >>

\* animate() (page.tsx:229-250): mixer.update(delta) when a mixer exists, and
\* the next frame is requested.
mixerUpdate(acts, t, delta) ==
  [ a \in 1..Len(acts) |->
      updateAction(acts[a], t, delta, heap[acts[a].clip].duration) ]

animate ==
  /\ rafPending
  /\ IF mixerRef
       THEN \E delta \in Deltas :
              /\ mixerTime + delta <= MaxTime
              /\ mixerTime' = mixerTime + delta
              /\ actions' = mixerUpdate(actions, mixerTime + delta, delta)
              /\ framesSince' = TRUE
       ELSE UNCHANGED << mixerTime, actions, framesSince >>
  /\ UNCHANGED << heap, rtVars, uiVars, variant, isComponentMounted, sceneRef, modelScene,
                  rafPending, isLoading, loadPc, modelRef, mixerRef, actionsRef,
                  currentActionRef, danceAnimationsRef, audioRef, isModelLoaded,
                  errorMessage, isFirstLoad, lastOp, prevOp, framesBetween,
                  outcome, calls, preTime, pendingFetches, onModelLoadedCalls >>

\* The current action left as it is.
stopExistingSkipped(acts, cur, now) == acts

\* "既存のアニメーションを停止" (page.tsx:376-380): the current action, if any, is
\* asked to fade out and is stopped.
stopExisting(acts, cur, now) ==
  IF cur # Null
    THEN [acts EXCEPT ![cur] = stop(fadeOut(@, now, FadeTicks))]
    ELSE acts

stopExistingCalls(cur) ==
  IF cur # Null
    THEN << << cur, "fadeOut", FadeTicks >>, << cur, "stop" >> >>
    ELSE << >>

\* The action started without the fade-in request.
startActionNoFade(acts, target, now) ==
  [acts EXCEPT ![target] = setLoop(play(reset(@)), "LoopRepeat", "Infinity")]

\* page.tsx:394-398: reset, fadeIn(0.5), play, setLoop(LoopRepeat, Infinity) on
\* the action found.
startAction(acts, target, now) ==
  [acts EXCEPT ![target] =
     setLoop(play(fadeIn(reset(@), now, FadeTicks)), "LoopRepeat", "Infinity")]

startActionCalls(target) ==
  << << target, "reset" >>, << target, "fadeIn", FadeTicks >>, << target, "play" >>,
     << target, "setLoop", "LoopRepeat", "Infinity" >> >>

\* playDanceAnimation without the lines that start the music.
playMusicSkipped == UNCHANGED audioRef

\* page.tsx:382-389: the music is started, in the variant that has these lines;
\* a rejected play() is caught and logged.
playMusic ==
  IF variant = "plain"
    THEN audioRef' \in { "playing", "rejected" }
    ELSE UNCHANGED audioRef

\* The condition of page.tsx:393.
actionFound(index) == mixerRef /\ registered(actionsRef, animationName(index))

\* playDanceAnimation(index), the method of the scene's handle (page.tsx:373-403).
playDanceAnimation(index) ==
  LET stopped == stopExisting(actions, currentActionRef, mixerTime)
  IN /\ playMusic
     /\ IF actionFound(index)
          THEN LET target == actionsRef[animationName(index)]
               IN /\ currentActionRef' = target
                  /\ actions' = startAction(stopped, target, mixerTime)
                  /\ outcome' = "started"
                  /\ calls' = stopExistingCalls(currentActionRef) \o startActionCalls(target)
                  /\ preTime' = actions[target].time
          ELSE /\ currentActionRef' = currentActionRef
               /\ actions' = stopped
               /\ outcome' = "warned"
               /\ calls' = stopExistingCalls(currentActionRef)
               /\ preTime' = -1
     /\ Observe(Op("play", index))
     /\ UNCHANGED << heap, rtVars, variant, isComponentMounted, sceneRef, modelScene,
                     rafPending, isLoading, loadPc, modelRef, mixerRef, mixerTime,
                     actionsRef, danceAnimationsRef, isModelLoaded, errorMessage,
                     isFirstLoad, pendingFetches, onModelLoadedCalls >>

\* The cleanup of the scene-initialisation effect (page.tsx:327-367), run when
\* the page is unmounted: the frame callback is cancelled, the mixer's active
\* actions are stopped (mixer.stopAllAction()), the scene's audio element is
\* paused (Home's, the one the video variant plays, is not),
\* and isComponentMounted.current is cleared.  The refs keep their values, and
\* a load in flight goes on.
stopAllAction(acts) ==
  [ a \in 1..Len(acts) |-> IF acts[a].active THEN stop(acts[a]) ELSE acts[a] ]

Unmount ==
  /\ isComponentMounted
  /\ isComponentMounted' = FALSE
  /\ rafPending' = FALSE
  /\ actions' = IF mixerRef THEN stopAllAction(actions) ELSE actions
  /\ audioRef' = IF variant = "plain" /\ audioRef # "null" THEN "paused" ELSE audioRef
  /\ Observe(Op("unmount", -1))
  /\ UNCHANGED << heap, rtVars, uiVars, variant, sceneRef, modelScene, isLoading, loadPc,
                  modelRef, mixerRef, mixerTime, actionsRef, currentActionRef,
                  danceAnimationsRef, isModelLoaded, errorMessage, isFirstLoad,
                  outcome, calls, preTime, pendingFetches, onModelLoadedCalls >>

\* A caller holding the handle calls playDanceAnimation with some index.
PlayCall ==
  \E index \in PlayIndices :
    /\ isComponentMounted
    /\ playDanceAnimation(index)
    /\ UNCHANGED timers

\* The music as Home's click handler starts it (page.tsx:1336-1342):
\* the element is created on first use and play() is called; a rejection is
\* caught and logged.
homePlayMusic == audioRef' \in { "playing", "rejected" }

\* handleIntergalactiaDance, the click handler of the "Dance Motion" button,
\* which is enabled while isModelLoaded (page.tsx:448-454).  Plain variant
\* (page.tsx:503-507): playDanceAnimation(0) on the handle.  Video variant
\* (page.tsx:1331-1348): the music is started and a 50 ms timer is set (the
\* video overlay the handler also opens is not part of the model).  The handle is non-null while the scene is mounted.
handleIntergalactiaDance ==
  IF variant = "plain"
    THEN /\ playDanceAnimation(0)
         /\ UNCHANGED timers
    ELSE /\ timers < MaxTimers
         /\ homePlayMusic
         /\ timers' = timers + 1
         /\ UNCHANGED << heap, rtVars, variant, isComponentMounted, sceneRef,
                         modelScene, rafPending, isLoading, loadPc, modelRef,
                         mixerRef, mixerTime, actions, actionsRef, currentActionRef,
                         danceAnimationsRef, isModelLoaded, errorMessage,
                         isFirstLoad, obsVars >>

Click == isComponentMounted /\ isModelLoaded /\ handleIntergalactiaDance

\* A 50 ms timer expires (page.tsx:1344-1346): playDanceAnimation(0) is called on
\* threeSceneRef.current, which is null once the scene is unmounted, and the
\* call then throws a TypeError.  Nothing clears the timer.
TimerFires ==
  /\ timers > 0
  /\ timers' = timers - 1
  /\ IF isComponentMounted
       THEN playDanceAnimation(0)
       ELSE /\ outcome' = "threw"
            /\ calls' = << >>
            /\ preTime' = -1
            /\ UNCHANGED << heap, rtVars, variant, isComponentMounted, sceneRef,
                            modelScene, rafPending, isLoading, loadPc, modelRef,
                            mixerRef, mixerTime, actions, actionsRef,
                            currentActionRef, danceAnimationsRef, audioRef,
                            isModelLoaded, errorMessage, isFirstLoad, lastOp,
                            prevOp, framesBetween, framesSince, pendingFetches,
                            onModelLoadedCalls >>

\* ------------------------------------------------------- specifications
Init ==
  /\ heap = << >>
  /\ rtIn = Null
  /\ rtOut = Null
  /\ rtHeap0 = << >>
  /\ rtPc = "unused"
  /\ PageInit

Next ==
  \/ Mount
  \/ StrictModeRemount
  \/ CharacterLoaded
  \/ CharacterFailed
  \/ DanceLoaded
  \/ DanceFailed
  \/ animate
  \/ PlayCall
  \/ Click
  \/ TimerFires
  \/ Unmount

Spec == Init /\ [][Next]_vars

\* =================================================================== claims
\* ------------------------------------------- retargetAnimation (SpecRetarget)
srcTracks == rtHeap0[rtIn].tracks
outTracks == heap[rtOut].tracks
srcIdx == 1..Len(srcTracks)
outIdx == 1..Len(outTracks)
srcName(i) == rtHeap0[srcTracks[i]].name
srcTimes(i) == rtHeap0[rtHeap0[srcTracks[i]].times].e
srcValues(i) == rtHeap0[rtHeap0[srcTracks[i]].values].e
outName(k) == heap[outTracks[k]].name
outTimes(k) == heap[heap[outTracks[k]].times].e
outValues(k) == heap[heap[outTracks[k]].values].e

\* The sample arrays of the source clip's tracks.
srcArrayRefs ==
  { rtHeap0[srcTracks[i]].times : i \in srcIdx } \cup
  { rtHeap0[srcTracks[i]].values : i \in srcIdx }

\* The joint of a source track has an entry written in the table.
srcMapped(i) == srcName(i)[1] \in boneMappingKeys
\* The identifier of a source track is "<joint>.<property>".
srcWellFormed(i) == Len(srcName(i)) = 2

\* C1: retargetAnimation leaves the source clip as it was: every object that
\* existed before the call (the clip, its tracks, their names and their sample
\* arrays) is unchanged after it, and no output track is a source track or
\* holds a sample array of the source clip.
C1_SourceClipUnchanged ==
  rtPc = "returned" =>
    /\ Len(heap) >= Len(rtHeap0)
    /\ \A r \in 1..Len(rtHeap0) : heap[r] = rtHeap0[r]
    /\ rtOut # rtIn
    /\ \A k \in outIdx :
         /\ outTracks[k] \notin { srcTracks[i] : i \in srcIdx }
         /\ heap[outTracks[k]].times \notin srcArrayRefs
         /\ heap[outTracks[k]].values \notin srcArrayRefs

\* A call on a two-track clip that emitted a track.
C1_Witness ==
  /\ rtPc = "returned"
  /\ Len(srcTracks) = 2
  /\ Len(outTracks) >= 1

\* C2 (as claimed): the returned clip has no track for a joint without an entry
\* in boneMapping, and as many tracks as source tracks whose joint is a key.
C2_OnlyMappedJoints ==
  rtPc = "returned" =>
    /\ Len(outTracks) = Cardinality({ i \in srcIdx : srcMapped(i) })
    /\ \A k \in outIdx :
         outName(k)[1] \in { boneMapping[j] : j \in boneMappingKeys }

C4_NameDurationKept ==
  rtPc = "returned" =>
    /\ heap[rtOut].name = rtHeap0[rtIn].name
    /\ heap[rtOut].duration = rtHeap0[rtIn].duration
    /\ ((\A i \in srcIdx : ~ srcMapped(i)) => outTracks = << >>)

\* C5 (as claimed): a track whose identifier does not split into exactly two
\* parts is skipped: the tracks emitted are those of the two-part identifiers
\* the lookup accepts, and none has the property "undefined".
C5_MalformedSkipped ==
  rtPc = "returned" =>
    /\ Len(outTracks) =
         Cardinality({ i \in srcIdx :
                         /\ srcWellFormed(i)
                         /\ JSToBoolean(boneMappingGet(srcName(i)[1])) })
    /\ \A k \in outIdx : outName(k)[2] # "undefined"

\* C6 (as claimed): the lookup answers "absent" for every joint identifier that
\* is not a key written in the table, and no track is emitted for it.
C6_UnknownKeyAbsent ==
  rtPc = "returned" =>
    \A i \in srcIdx :
      ~ srcMapped(i) =>
        /\ boneMappingGet(srcName(i)[1]) = Undefined
        /\ \A k \in outIdx :
             outName(k)[1] # JSToString(boneMappingGet(srcName(i)[1]))

\* ---------------------------------------------- playDanceAnimation (Spec)
danceAction(index) == actionsRef[animationName(index)]
danceRegistered ==
  \E n \in ActionNames : n[1] = "dance" /\ actionsRef[n] # Null
runningActions == { a \in 1..Len(actions) : isRunning(actions[a]) }
looping(a) == a.loop = "LoopRepeat" /\ a.repetitions = "Infinity"
fadingInFrom(a, now) ==
  a.fade = [t0 |-> now, v0 |-> 0, t1 |-> now + FadeTicks, v1 |-> FullWeight]
DanceIndices == 0..(MaxClips - 1)

\* C7: with actions registered for i and j, i # j, playDanceAnimation(i)
\* immediately followed by playDanceAnimation(j) ends in a state where exactly
\* one action is running and looping, dance_j, which is the current action;
\* dance_i has received fadeOut(0.5) and stop() and is not running.
C7_SwitchLeavesOneRunning ==
  \A i \in DanceIndices : \A j \in DanceIndices :
    ( /\ i # j
      /\ prevOp = Op("play", i)
      /\ lastOp = Op("play", j)
      /\ ~ framesBetween
      /\ ~ framesSince
      /\ actionFound(i)
      /\ actionFound(j) )
    => /\ runningActions = { danceAction(j) }
       /\ looping(actions[danceAction(j)])
       /\ currentActionRef = danceAction(j)
       /\ Len(calls) >= 2
       /\ calls[1] = << danceAction(i), "fadeOut", FadeTicks >>
       /\ calls[2] = << danceAction(i), "stop" >>
       /\ ~ isRunning(actions[danceAction(i)])

\* dance_1 was started right after dance_0, both registered.
C7_Witness ==
  /\ prevOp = Op("play", 0)
  /\ lastOp = Op("play", 1)
  /\ ~ framesBetween
  /\ ~ framesSince
  /\ actionFound(0)
  /\ actionFound(1)
  /\ outcome = "started"
  /\ calls[1] = << danceAction(0), "fadeOut", FadeTicks >>

\* C8: every playDanceAnimation(0) that finds dance_0, the first one and one
\* repeated after any number of frames, leaves dance_0 at local time 0,
\* running, looping, fading in from the call's mixer time, and current.
C8_ReplayRestarts ==
  ( /\ lastOp = Op("play", 0)
    /\ ~ framesSince
    /\ actionFound(0) )
  => /\ actions[danceAction(0)].time = 0
     /\ actions[danceAction(0)].loopCount = -1
     /\ isRunning(actions[danceAction(0)])
     /\ looping(actions[danceAction(0)])
     /\ fadingInFrom(actions[danceAction(0)], mixerTime)
     /\ runningActions = { danceAction(0) }
     /\ currentActionRef = danceAction(0)
     /\ outcome = "started"

\* playDanceAnimation(0) was called a second time after frames had moved
\* dance_0 away from local time 0.
C8_Witness ==
  /\ prevOp = Op("play", 0)
  /\ lastOp = Op("play", 0)
  /\ framesBetween
  /\ ~ framesSince
  /\ actionFound(0)
  /\ outcome = "started"
  /\ calls[1] = << danceAction(0), "fadeOut", FadeTicks >>
  /\ preTime > 0
  /\ actions[danceAction(0)].time = 0

\* C9: playDanceAnimation called while there is no mixer or no dance action is
\* registered ends in its warning branch, calls no method of any action,
\* leaves the current pointer null and every action as it was created.
C9_NothingRegisteredOnlyWarns ==
  ( /\ lastOp.op = "play"
    /\ (~ mixerRef \/ ~ danceRegistered) )
  => /\ outcome = "warned"
     /\ calls = << >>
     /\ currentActionRef = Null
     /\ \A a \in 1..Len(actions) : actions[a] = newAnimationAction(actions[a].clip)

\* playDanceAnimation was called with a mixer and the character's own
\* actions in place, but no dance action.
C9_Witness ==
  /\ lastOp.op = "play"
  /\ mixerRef
  /\ Len(actions) > 0
  /\ ~ danceRegistered
  /\ outcome = "warned"

\* C10 (as claimed): playDanceAnimation(index) with an index that is not
\* registered is a no-op in every reachable state: the current pointer and the
\* state of every action are the same after the call as before it.
C10_UnregisteredIndexNoOp ==
  [][ \A index \in PlayIndices :
        ( /\ isComponentMounted
          /\ ~ actionFound(index)
          /\ playDanceAnimation(index) )
        => /\ currentActionRef' = currentActionRef
           /\ actions' = actions ]_vars

\* C11: in every reachable state at most one action is running (fading in or
\* looping).
C11_AtMostOneRunning == Cardinality(runningActions) <= 1

\* Two different dance actions were started one after the other and frames
\* have run since: the second is running, the first is not.
C11_Witness ==
  /\ prevOp.op = "play"
  /\ lastOp.op = "play"
  /\ prevOp.index # lastOp.index
  /\ actionFound(prevOp.index)
  /\ actionFound(lastOp.index)
  /\ framesSince
  /\ runningActions = { danceAction(lastOp.index) }

\* C12: when dance_<index> is registered and the mixer exists, the state in
\* which playDanceAnimation(index) returns has the current pointer on that
\* action, the action at local time 0, a fade-in of 0.5 requested at the
\* call's mixer time and still pending, the action started and its loop mode
\* repeat with infinitely many repetitions; reset, fadeIn, play and setLoop were
\* the last calls made, in this order.
C12_PlayIsSynchronous ==
  \A index \in DanceIndices :
    ( /\ lastOp = Op("play", index)
      /\ ~ framesSince
      /\ actionFound(index) )
    => /\ currentActionRef = danceAction(index)
       /\ actions[danceAction(index)].time = 0
       /\ fadingInFrom(actions[danceAction(index)], mixerTime)
       /\ actions[danceAction(index)].fade.t1 > mixerTime
       /\ actions[danceAction(index)].active
       /\ isRunning(actions[danceAction(index)])
       /\ looping(actions[danceAction(index)])
       /\ Len(calls) >= 4
       /\ SubSeq(calls, Len(calls) - 3, Len(calls)) = startActionCalls(danceAction(index))

\* playDanceAnimation(1) was the first call to find an action: nothing was
\* current, and dance_1 is current and fading in when the call returns.
C12_Witness ==
  /\ lastOp = Op("play", 1)
  /\ ~ framesSince
  /\ actionFound(1)
  /\ calls = startActionCalls(danceAction(1))
  /\ currentActionRef = danceAction(1)
  /\ fadingInFrom(actions[danceAction(1)], mixerTime)

\* The state of a PlaybackAction as the mixer holds it.  An action that was
\* never started and one that was stopped are both inactive and reset.
phase(a) ==
  IF ~ a.active THEN "Idle"
  ELSE IF a.fade = NoFade THEN "Looping"
  ELSE IF a.fade.v1 = FullWeight THEN "FadingIn"
  ELSE "FadingOut"

\* A step of the cycle Idle -> FadingIn -> Looping -> FadingOut -> Stopped ->
\* Idle, Stopped and Idle being the same inactive state; or no step.
cycleStep(p, q) ==
  \/ p = q
  \/ p = "Idle" /\ q = "FadingIn"
  \/ p = "FadingIn" /\ q = "Looping"
  \/ p = "Looping" /\ q = "FadingOut"
  \/ p = "FadingOut" /\ q = "Idle"

\* C13 (as claimed): while the page is mounted, every step (a
\* playDanceAnimation call, a frame, a load completion) moves every action
\* along the cycle Idle -> FadingIn -> Looping -> FadingOut -> Stopped -> Idle
\* or leaves it where it is.
C13_ActionsFollowCycle ==
  [][ isComponentMounted' =>
        \A a \in 1..Len(actions) :
          cycleStep(phase(actions[a]), phase(actions'[a])) ]_vars

\* C14 (as claimed): no action exists for a clip of the motion file until
\* playDanceAnimation is called for its index; here, as long as
\* playDanceAnimation has not been called at all, no dance action exists.
C14_ActionsCreatedLazily ==
  outcome = "none" => ~ danceRegistered

\* C15 (as claimed): once the cleanup of the scene-initialisation effect has
\* run, the registry holds no action and the current pointer is null.
C15_TeardownClearsActions ==
  ( /\ ~ isComponentMounted
    /\ lastOp.op = "unmount" )
  => /\ \A n \in ActionNames : actionsRef[n] = Null
     /\ currentActionRef = Null

\* out is a clip retargetAnimation can have made from src: another object,
\* same name and duration, every track named after what boneMapping holds for
\* a joint of src.
isRetargetOf(out, src) ==
  /\ out # src
  /\ heap[out].name = heap[src].name
  /\ heap[out].duration = heap[src].duration
  /\ \A k \in 1..Len(heap[out].tracks) :
       \E i \in 1..Len(heap[src].tracks) :
         heap[heap[out].tracks[k]].name[1] =
           JSToString(boneMappingGet(splitBoneName(heap[heap[src].tracks[i]].name)))

\* C16: dance_<i> is registered only once the motion file has loaded and clip
\* i has been retargeted, and its action plays the retargeted clip; a
\* playDanceAnimation call made before that only warns and leaves no action
\* current or running; and when the load completes nothing is started on
\* behalf of an earlier call.
C16_ResolvableOnlyAfterRetargeting ==
  /\ \A i \in DanceIndices :
       registered(actionsRef, animationName(i)) =>
         /\ loadPc = "none"
         /\ i < Len(danceAnimationsRef)
         /\ isRetargetOf(actions[danceAction(i)].clip, danceAnimationsRef[i + 1])
  /\ (lastOp.op = "play" /\ danceAnimationsRef = << >>) =>
       /\ outcome = "warned"
       /\ calls = << >>
       /\ currentActionRef = Null
       /\ runningActions = { }
  /\ lastOp.op = "danceLoaded" =>
       /\ currentActionRef = Null
       /\ \A a \in 1..Len(actions) : ~ actions[a].active

\* playDanceAnimation(0) was called while the motion file was loading; the
\* load has completed since, dance_0 is registered, and frames have run.
C16_Witness ==
  /\ prevOp = Op("play", 0)
  /\ lastOp.op = "danceLoaded"
  /\ outcome = "warned"
  /\ actionFound(0)
  /\ framesSince
  /\ isComponentMounted

\* ------------------------------------------------------ loadModels (Spec)
\* C17: never more than one fetch is pending; the loadModels call of the
\* second initialisation, made while isLoading is set, issues no fetch and
\* leaves the load in flight, the scene's model, the mixer, the registry and
\* Home's state as they were; and onModelLoaded is called at most once, for
\* the load that was accepted.
C17_DuplicateLoadDropped ==
  /\ pendingFetches <= 1
  /\ (loadPc = "none") = (pendingFetches = 0)
  /\ Len(onModelLoadedCalls) <= 1
  /\ lastOp.op = "remount" =>
       /\ isLoading
       /\ loadPc = "character"
       /\ pendingFetches = 1
       /\ ~ modelRef
       /\ ~ mixerRef
       /\ modelScene = Null
       /\ actions = << >>
       /\ \A n \in ActionNames : actionsRef[n] = Null
       /\ currentActionRef = Null
       /\ onModelLoadedCalls = << >>
       /\ ~ isModelLoaded
       /\ errorMessage = ""

\* The component was initialised twice, the second loadModels call was
\* dropped, and the one accepted load has finished with its one callback.
C17_Witness ==
  /\ sceneRef = 2
  /\ ~ isLoading
  /\ pendingFetches = 0
  /\ Len(onModelLoadedCalls) = 1

\* C18: when a fetch has failed, the one call of onModelLoaded made for the
\* load is onModelLoaded(false, message), the message being the rejection's
\* message (the fixed unknown-error text when the rejection is no Error);
\* onModelLoaded(true) is never called besides a failure report; and when it
\* was the character fetch that failed, no motion fetch is pending, no mixer
\* exists and no action is registered.
C18_FailureReported ==
  /\ (\E k \in 1..Len(onModelLoadedCalls) : ~ onModelLoadedCalls[k].loaded) =>
       (\A k \in 1..Len(onModelLoadedCalls) : ~ onModelLoadedCalls[k].loaded)
  /\ lastOp.op \in { "characterFailed", "danceFailed" } =>
       /\ onModelLoadedCalls =
            << [ loaded |-> FALSE, hasError |-> TRUE,
                 error |-> IF lastOp.failure.isError
                             THEN lastOp.failure.message
                             ELSE UnknownErrorText ] >>
       /\ ~ isLoading
       /\ pendingFetches = 0
       /\ loadPc = "none"
       /\ lastOp.op = "characterFailed" =>
            /\ ~ mixerRef
            /\ ~ modelRef
            /\ actions = << >>
            /\ danceAnimationsRef = << >>
            /\ \A n \in ActionNames : actionsRef[n] = Null

\* The character fetch was rejected with an Error that has a message.
C18_Witness ==
  /\ lastOp.op = "characterFailed"
  /\ lastOp.failure.isError
  /\ lastOp.failure.message = "Unexpected token"
  /\ isComponentMounted
  /\ Len(onModelLoadedCalls) = 1

\* C19 (as claimed): while the page is mounted, after every
\* onModelLoaded(false, message) the error banner shows a non-empty text, the
\* fixed file-not-found text when the message contains "Not Found" and the
\* message itself otherwise, and the dance button is disabled.
C19_FailureShowsBanner ==
  ( /\ isComponentMounted
    /\ onModelLoadedCalls # << >>
    /\ ~ onModelLoadedCalls[Len(onModelLoadedCalls)].loaded )
  => /\ errorMessage # ""
     /\ errorMessage =
          IF includesNotFound(onModelLoadedCalls[Len(onModelLoadedCalls)].error)
            THEN FileNotFoundText
            ELSE onModelLoadedCalls[Len(onModelLoadedCalls)].error
     /\ ~ isModelLoaded

\* Neither retargetAnimation nor clipAction throws for the clip: every track
\* retargetAnimation emits for it has a name the mixer can parse.
clipProcessable(src) ==
  \A i \in 1..Len(heap[src].tracks) :
    JSToBoolean(boneMappingGet(splitBoneName(heap[heap[src].tracks[i]].name))) =>
      trackNameParsable(newTrackName(splitBoneName(heap[heap[src].tracks[i]].name),
                                     splitProperty(heap[heap[src].tracks[i]].name)))

\* C20 (as claimed): when both fetches have succeeded the load ends with
\* onModelLoaded(true) and no error banner, whatever happened while the clips
\* were processed, and every clip whose own processing does not fail is
\* registered under dance_<index> with its retargeted clip.
C20_ProcessingFailureOnlyLogged ==
  lastOp.op = "danceLoaded" =>
    /\ onModelLoadedCalls = << [loaded |-> TRUE, hasError |-> FALSE, error |-> ""] >>
    /\ (isComponentMounted => errorMessage = "")
    /\ \A i \in 1..Len(danceAnimationsRef) :
         clipProcessable(danceAnimationsRef[i]) =>
           /\ registered(actionsRef, animationName(i - 1))
           /\ isRetargetOf(actions[danceAction(i - 1)].clip, danceAnimationsRef[i])

PlayCallAt(index) ==
  isComponentMounted /\ playDanceAnimation(index) /\ UNCHANGED timers

SpecFair ==
  /\ Spec
  /\ WF_vars(animate)
  /\ WF_vars(CharacterLoaded \/ CharacterFailed)
  /\ WF_vars(DanceLoaded \/ DanceFailed)
  /\ WF_vars(TimerFires)
  /\ SF_vars(Click)
  /\ \A index \in PlayIndices : SF_vars(PlayCallAt(index))

\* A failure has been reported: onModelLoaded(false, ...) was called.
loadHasFailed ==
  \E k \in 1..Len(onModelLoadedCalls) : ~ onModelLoadedCalls[k].loaded

\* C22: once a load has failed, no fetch of the character model or of the
\* motion file is in flight or issued again, no load is in progress, and the
\* dance button stays disabled (isModelLoaded stays false).
C22_NoRetryAfterFailure ==
  loadHasFailed
  => /\ pendingFetches = 0
     /\ loadPc = "none"
     /\ ~ isLoading
     /\ ~ isModelLoaded
     /\ Len(onModelLoadedCalls) = 1

C22_Witness ==
  /\ loadHasFailed
  /\ mixerRef
  /\ lastOp.op = "play"
  /\ prevOp.op = "play"

\* C23: with the model loaded and the "Dance Motion" button enabled, the
\* playDanceAnimation(0) call a click makes (at once in the plain variant,
\* when the 50 ms timer expires in the video variant) leaves dance_0 as the
\* current action, running.
C23_ClickStartsDance ==
  (isModelLoaded /\ lastOp = Op("play", 0) /\ ~ framesSince)
  => /\ danceAction(0) # Null
     /\ currentActionRef = danceAction(0)
     /\ isRunning(actions[danceAction(0)])

\* An action registered for a built-in clip of the character file.
originalRegistered == \E i \in 0..(MaxCharacterClips - 1) : registered(actionsRef, originalName(i))

originalRunning ==
  \E i \in 0..(MaxCharacterClips - 1) :
    /\ registered(actionsRef, originalName(i))
    /\ isRunning(actions[actionsRef[originalName(i)]])

\* C24: when the character file has built-in clips, they get played: once an
\* action is registered as "original_<index>", the user's actions lead, while
\* the page stays open, to a state in which such an action is running.
C24_BuiltInClipPlayed ==
  [](originalRegistered => <>(originalRunning \/ ~ isComponentMounted))

\* C25: whenever the "Dance Motion" button is enabled (isModelLoaded), the
\* mixer exists and an action is registered under "dance_0", also when the
\* motion file had no clips or processing them failed.
C25_EnabledButtonResolves ==
  isModelLoaded => (mixerRef /\ registered(actionsRef, animationName(0)))

\* C26: the isLoading flag is true exactly while the accepted load is in
\* flight, no callback is made before the load finishes, and a finished load
\* has made exactly one onModelLoaded call: onModelLoaded(true) with no
\* message, or onModelLoaded(false, message).
C26_OneCallbackPerLoad ==
  /\ isLoading <=> (loadPc # "none")
  /\ isLoading <=> (pendingFetches = 1)
  /\ pendingFetches \in { 0, 1 }
  /\ isLoading => onModelLoadedCalls = << >>
  /\ (~ isLoading /\ lastOp # NoOp)
       => /\ Len(onModelLoadedCalls) = 1
          /\ onModelLoadedCalls[1].loaded <=> ~ onModelLoadedCalls[1].hasError

C26_Witness ==
  /\ lastOp.op = "danceLoaded"
  /\ ~ isLoading
  /\ onModelLoadedCalls = << [loaded |-> TRUE, hasError |-> FALSE, error |-> ""] >>

\* C27: when the scene was initialised, torn down and initialised again while
\* the first load was in flight, there is still one load only; the model it
\* brings is added to the scene of the second initialisation, and when it
\* has succeeded onModelLoaded(true) was delivered once and every clip that
\* was processed is registered as a dance action.
C27_StrictModeLoadSurvives ==
  sceneRef = 2
  => /\ pendingFetches <= 1
     /\ Len(onModelLoadedCalls) <= 1
     /\ modelRef => modelScene = sceneRef
     /\ isModelLoaded
          => /\ modelRef /\ mixerRef
             /\ onModelLoadedCalls = << [loaded |-> TRUE, hasError |-> FALSE, error |-> ""] >>
             /\ \A i \in 1..Len(danceAnimationsRef) :
                  (\A j \in 1..i : clipProcessable(danceAnimationsRef[j]))
                    => registered(actionsRef, animationName(i - 1))

C27_Witness ==
  /\ sceneRef = 2
  /\ modelScene = 2
  /\ isModelLoaded
  /\ Len(danceAnimationsRef) = 2
  /\ registered(actionsRef, animationName(0))
  /\ registered(actionsRef, animationName(1))

\* C28: a 50 ms timer set by a click never makes its playDanceAnimation(0)
\* call on a null handle, whatever happens between the click and the expiry
\* of the timer (the unmount of the scene included).
C28_TimerHandleNonNull == outcome # "threw"

\* C29: whenever the current-action pointer is non-null it refers to an action
\* registered under a "dance_<index>" key, and that action is running.
C29_PointerIsRunningDance ==
  currentActionRef # Null
  => /\ \E i \in DanceIndices : danceAction(i) = currentActionRef
     /\ isRunning(actions[currentActionRef])

\* The source track at i is emitted: the lookup of its joint is truthy.
srcEmitted(i) == JSToBoolean(boneMappingGet(splitBoneName(srcName(i))))
\* Its position among the emitted tracks.
outOf(i) == Cardinality({ j \in 1..i : srcEmitted(j) })

\* C30: the boneMapping table is injective with non-empty keys and values;
\* the output tracks are the emitted source tracks in their order, and two
\* source tracks with different identifiers never get the same output
\* identifier.
C30_InjectiveOrderKept ==
  /\ \A j, k \in boneMappingKeys : j # k => boneMapping[j] # boneMapping[k]
  /\ \A k \in boneMappingKeys : k # "" /\ boneMapping[k] # ""
  /\ rtPc = "returned" =>
       /\ Len(outTracks) = Cardinality({ i \in srcIdx : srcEmitted(i) })
       /\ \A i \in srcIdx :
            srcEmitted(i) => /\ outTimes(outOf(i)) = srcTimes(i)
                             /\ outValues(outOf(i)) = srcValues(i)
       /\ \A i, j \in srcIdx :
            (srcEmitted(i) /\ srcEmitted(j) /\ srcName(i) # srcName(j))
              => outName(outOf(i)) # outName(outOf(j))

====
